---- MODULE Spec2Model ----
(***************************************************************************)
(* Knowledge-base ingestion tools of examples/knowledgebase:               *)
(*   reingest.py  incremental run: parse, load cache, diff, submit, save   *)
(*   ingest.py    full run: (clear,) build indices, parse, submit          *)
(*   query.py     query run: search, node search                           *)
(* A run is a sequence of steps separated by the I/O it performs; the      *)
(* document, the cache file and the graph engine outlive the runs.         *)
(***************************************************************************)
EXTENDS Integers, Sequences, FiniteSets, TLC

\* ------------------------------------------------------------- bounds
MaxParas == 2        \* paragraphs in a document
MaxRuns == 2         \* runs started

\* ------------------------------------------------- program constants
Threshold == 1000    \* len(current_chunk) + len(paragraph) > 1000
FixedOffset == 10    \* timedelta(seconds=i * 10)

\* ------------------------------------------------------------ documents
\* A paragraph is what content.split('\n\n') yields and p.strip() keeps: a
\* non-blank text with some leading and trailing whitespace characters.
\* text names the stripped text; its length is TextLen(text).
TextLen(text) == CASE text = 1 -> 400
                   [] text = 2 -> 700
                   [] text = 4 -> 600
                   [] OTHER -> 1100

Para(text, lead, trail) == [text |-> text, lead |-> lead, trail |-> trail]

\* The paragraphs the documents of the model are made of.
Pool == {Para(1, 0, 0), Para(2, 0, 0)}

SeqsUpTo(S, n) == UNION {[1..k -> S] : k \in 0..n}

Docs == SeqsUpTo(Pool, MaxParas)

\* Paragraphs of every length class, with and without whitespace around the
\* text, and the documents made of them.
RichPool == {Para(t, l, r) : t \in 1..4, l \in 0..1, r \in 0..1}
RichDocs == SeqsUpTo(RichPool, MaxParas)

\* Paragraphs of three lengths, two of which fit into one chunk together, and
\* the documents made of them; the orders the paragraphs of d can be put in.
ReorderPool == {Para(1, 0, 0), Para(2, 0, 0), Para(4, 0, 0)}
ReorderDocs == SeqsUpTo(ReorderPool, MaxParas)
Occurrences(d, p) == Cardinality({k \in 1..Len(d) : d[k] = p})
Reordered(d) ==
    {e \in [1..Len(d) -> ReorderPool] :
        \A p \in ReorderPool : Occurrences(e, p) = Occurrences(d, p)}

\* The documents one edit away from d: a paragraph rewritten, removed or added.
Rewritten(d) == {[d EXCEPT ![k] = p] : k \in 1..Len(d), p \in Pool}
Removed(d) == {SubSeq(d, 1, k - 1) \o SubSeq(d, k + 1, Len(d)) : k \in 1..Len(d)}
Added(d) ==
    IF Len(d) >= MaxParas THEN {}
    ELSE {SubSeq(d, 1, k) \o <<p>> \o SubSeq(d, k + 1, Len(d)) :
             k \in 0..Len(d), p \in Pool}
Edited(d) == (Rewritten(d) \cup Removed(d) \cup Added(d)) \ {d}

\* len(paragraph)
ParaLen(p) == p.lead + TextLen(p.text) + p.trail

\* len(current_chunk): the paragraphs of the buffer joined by "\n\n"
RECURSIVE StrLen(_)
StrLen(buf) ==
    IF buf = <<>> THEN 0
    ELSE IF Len(buf) = 1 THEN ParaLen(buf[1])
    ELSE StrLen(SubSeq(buf, 1, Len(buf) - 1)) + 2 + ParaLen(buf[Len(buf)])

\* current_chunk.strip(): the whitespace before the first text and after the
\* last one goes; every paragraph of the buffer holds text.
Strip(buf) ==
    IF buf = <<>> THEN <<>>
    ELSE [k \in 1..Len(buf) |->
            [text |-> buf[k].text,
             lead |-> IF k = 1 THEN 0 ELSE buf[k].lead,
             trail |-> IF k = Len(buf) THEN 0 ELSE buf[k].trail]]

\* hashlib.md5(content.encode()).hexdigest(): a digest of the exact content,
\* taken as collision-free: a number that encodes the content.
RECURSIVE Md5(_)
Md5(content) ==
    IF content = <<>> THEN 0
    ELSE Md5(SubSeq(content, 1, Len(content) - 1)) * 64
         + content[Len(content)].text * 8
         + content[Len(content)].lead * 4
         + content[Len(content)].trail * 2 + 1

\* A chunk whose hash covers its number as well.
MakeChunkNumbered(chunk_number, current_chunk) ==
    [chunk_number |-> chunk_number,
     content |-> Strip(current_chunk),
     hash |-> Md5(Strip(current_chunk)) * 8 + chunk_number]

MakeChunk(chunk_number, current_chunk) ==
    [chunk_number |-> chunk_number,
     content |-> Strip(current_chunk),
     hash |-> Md5(Strip(current_chunk))]

\* The loop of parse_text_file without the chunk after the loop.
RECURSIVE ChunkLoopNoLast(_, _, _, _, _)
ChunkLoopNoLast(paragraphs, k, chunks0, current_chunk, chunk_number) ==
    IF k > Len(paragraphs)
    THEN chunks0
    ELSE IF StrLen(current_chunk) + ParaLen(paragraphs[k]) > Threshold
            /\ current_chunk # <<>>
         THEN ChunkLoopNoLast(paragraphs, k + 1,
                        Append(chunks0, MakeChunk(chunk_number, current_chunk)),
                        <<paragraphs[k]>>, chunk_number + 1)
         ELSE ChunkLoopNoLast(paragraphs, k + 1, chunks0,
                        Append(current_chunk, paragraphs[k]), chunk_number)

\* The loop of parse_text_file over the paragraphs from index k on.
RECURSIVE ChunkLoop(_, _, _, _, _)
ChunkLoop(paragraphs, k, chunks0, current_chunk, chunk_number) ==
    IF k > Len(paragraphs)
    THEN IF current_chunk # <<>>
         THEN Append(chunks0, MakeChunk(chunk_number, current_chunk))
         ELSE chunks0
    ELSE IF StrLen(current_chunk) + ParaLen(paragraphs[k]) > Threshold
            /\ current_chunk # <<>>
         THEN ChunkLoop(paragraphs, k + 1,
                        Append(chunks0, MakeChunk(chunk_number, current_chunk)),
                        <<paragraphs[k]>>, chunk_number + 1)
         ELSE ChunkLoop(paragraphs, k + 1, chunks0,
                        Append(current_chunk, paragraphs[k]), chunk_number)

parse_text_file(paragraphs) == ChunkLoop(paragraphs, 1, <<>>, <<>>, 1)

\* ------------------------------------------------------------ the cache
\* cache["chunks"]: a dict, kept as the sequence of its entries in insertion
\* order, each [hash, chunk_number, last_ingested].
Keys(c) == {c[k].hash : k \in 1..Len(c)}

\* The cache file: missing, a complete JSON document ("valid") or the prefix
\* of one that an unfinished write left ("partial").
NoFile == [state |-> "missing", entries |-> <<>>]

\* load_cache that never finds the file.
load_cache_missing(file) == <<>>

load_cache(file) ==
    IF file.state = "valid" THEN file.entries ELSE <<>>

\* The comparison loop, forgetting to stage the new chunk in the cache.
RECURSIVE DiffLoopNoStage(_, _, _, _, _)
DiffLoopNoStage(chunks0, k, cache0, new0, t) ==
    IF k > Len(chunks0)
    THEN [cache |-> cache0, new_or_changed_chunks |-> new0]
    ELSE IF chunks0[k].hash \notin Keys(cache0)
         THEN DiffLoopNoStage(chunks0, k + 1, cache0, Append(new0, chunks0[k]), t)
         ELSE DiffLoopNoStage(chunks0, k + 1, cache0, new0, t)

\* The comparison loop, writing the entry of a hash again for each later
\* chunk of the same content.
RECURSIVE DiffLoopRestage(_, _, _, _, _)
DiffLoopRestage(chunks0, k, cache0, new0, t) ==
    IF k > Len(chunks0)
    THEN [cache |-> cache0, new_or_changed_chunks |-> new0]
    ELSE IF chunks0[k].hash \notin Keys(cache0)
         THEN DiffLoopRestage(chunks0, k + 1,
                       Append(cache0, [hash |-> chunks0[k].hash,
                                       chunk_number |-> chunks0[k].chunk_number,
                                       last_ingested |-> t]),
                       Append(new0, chunks0[k]), t)
         ELSE IF chunks0[k].hash \in {new0[j].hash : j \in 1..Len(new0)}
         THEN DiffLoopRestage(chunks0, k + 1,
                       [j \in 1..Len(cache0) |->
                           IF cache0[j].hash = chunks0[k].hash
                           THEN [cache0[j] EXCEPT
                                    !.chunk_number = chunks0[k].chunk_number]
                           ELSE cache0[j]],
                       new0, t)
         ELSE DiffLoopRestage(chunks0, k + 1, cache0, new0, t)

\* The comparison loop of reingest_text_file over the chunks from index k on:
\* a chunk whose hash is no key of the cache is kept and staged in the cache.
RECURSIVE DiffLoop(_, _, _, _, _)
DiffLoop(chunks0, k, cache0, new0, t) ==
    IF k > Len(chunks0)
    THEN [cache |-> cache0, new_or_changed_chunks |-> new0]
    ELSE IF chunks0[k].hash \notin Keys(cache0)
         THEN DiffLoop(chunks0, k + 1,
                       Append(cache0, [hash |-> chunks0[k].hash,
                                       chunk_number |-> chunks0[k].chunk_number,
                                       last_ingested |-> t]),
                       Append(new0, chunks0[k]), t)
         ELSE DiffLoop(chunks0, k + 1, cache0, new0, t)

\* reference_time without the loop index.
ReferenceTimeFixed(now0, k) == now0 + FixedOffset

\* reference_time=now + timedelta(seconds=i * 10)
ReferenceTime(now0, k) == now0 + k * FixedOffset

\* ---------------------------------------------------------------- state
VARIABLES
    doc,                    \* the paragraphs of the document file
    cacheFile,              \* the cache file of the document
    graph,                  \* the episodes the graph engine holds
    clock,                  \* the wall clock, in seconds
    runs,                   \* runs started
    edited,                 \* the document was edited since the last run
    mode,                   \* "incremental" (reingest.py) or "full" (ingest.py)
    clear_existing,         \* ingest_text_file's argument
    env,                    \* which of NEO4J_URI/_USER/_PASSWORD are non-empty
    pc,                     \* where the run is
    chunks,                 \* parse_text_file's result
    cache,                  \* the cache dict of the run
    new_or_changed_chunks,  \* the delta of the run
    i,                      \* index of the submission loop
    now,                    \* datetime.now(timezone.utc) taken before the loop
    exc,                    \* an exception is propagating through finally
    outcome,                \* "none" while running, then "ok" or "error"
    graphiti,               \* the client: "none", "open", "closed"
    calls,                  \* the add_episode calls of the run, in order
    accepted,               \* hashes whose add_episode ever returned
    fileAtStart,            \* the cache file when the run started
    runDoc,                 \* the document when the run started
    loadedKeys,             \* the keys of the cache as load_cache returned it
    saveReached,            \* the run has entered save_cache
    prev,                   \* the run before this one
    ops,                    \* the operations the run has invoked, in order
    outstanding             \* indices of the add_episode calls in flight

vars == <<doc, cacheFile, graph, clock, runs, edited, mode, clear_existing, env,
          pc, chunks, cache, new_or_changed_chunks, i, now, exc, outcome,
          graphiti, calls, accepted, fileAtStart, runDoc, loadedKeys,
          saveReached, prev, ops, outstanding>>

persistent == <<doc, cacheFile, graph, accepted>>
counters == <<clock, runs, edited>>
runInfo == <<mode, clear_existing, env, fileAtStart, runDoc, prev>>
local == <<chunks, cache, new_or_changed_chunks, i, now, loadedKeys>>
trace == <<ops, outstanding>>

\* A variable of os.environ is not set, set to the empty string or set to a
\* non-empty one.
EnvValues == {"unset", "empty", "set"}

\* os.environ.get(name, default): the default, a non-empty literal, stands in
\* for a variable that is not set.
Getenv(v) == IF v = "unset" THEN "default" ELSE v

\* The environments of the runs of Spec: every variable is set, to the empty
\* string or not. Environs adds the variables that are not set.
Envs == [uri : {"empty", "set"}, user : {"empty", "set"},
         password : {"empty", "set"}]
Environs == [uri : EnvValues, user : EnvValues, password : EnvValues]

NoRun == [mode |-> "none", outcome |-> "none", doc |-> <<>>,
          failed |-> {}, ncalls |-> 0]

Init ==
    /\ doc \in Docs
    /\ cacheFile = NoFile
    /\ graph = {}
    /\ clock = 0
    /\ runs = 0
    /\ edited = FALSE
    /\ mode = "none"
    /\ clear_existing = FALSE
    /\ env = [uri |-> "set", user |-> "set", password |-> "set"]
    /\ pc = "idle"
    /\ chunks = <<>>
    /\ cache = <<>>
    /\ new_or_changed_chunks = <<>>
    /\ i = 0
    /\ now = 0
    /\ exc = FALSE
    /\ outcome = "none"
    /\ graphiti = "none"
    /\ calls = <<>>
    /\ accepted = {}
    /\ fileAtStart = NoFile
    /\ runDoc = <<>>
    /\ loadedKeys = {}
    /\ saveReached = FALSE
    /\ prev = NoRun
    /\ ops = <<>>
    /\ outstanding = {}

\* The chunks the submission loop goes through.
Pending == IF mode = "full" THEN chunks ELSE new_or_changed_chunks

FailedHashes == {calls[k].hash : k \in {j \in 1..Len(calls) : ~calls[j].ok}}

\* ------------------------------------------------------- start of a run
\* The process starts: os.environ is read, nothing else is touched yet.
Begin(m, ce, e) ==
    /\ pc \in {"idle", "done"}
    /\ runs < MaxRuns
    /\ runs' = runs + 1
    /\ clock' = clock + 60
    /\ mode' = m
    /\ clear_existing' = ce
    /\ env' = e
    /\ pc' = "config"
    /\ chunks' = <<>>
    /\ cache' = <<>>
    /\ new_or_changed_chunks' = <<>>
    /\ i' = 0
    /\ now' = 0
    /\ exc' = FALSE
    /\ outcome' = "none"
    /\ graphiti' = "none"
    /\ calls' = <<>>
    /\ fileAtStart' = cacheFile
    /\ runDoc' = doc
    /\ loadedKeys' = {}
    /\ saveReached' = FALSE
    /\ prev' = [mode |-> mode, outcome |-> outcome, doc |-> runDoc,
                failed |-> FailedHashes, ncalls |-> Len(calls)]
    /\ edited' = FALSE
    /\ ops' = <<>>
    /\ outstanding' = {}
    /\ UNCHANGED persistent

StartReingest == \E e \in Envs : Begin("incremental", FALSE, e)

StartIngest == \E ce \in BOOLEAN, e \in Envs : Begin("full", ce, e)

\* The document is edited between two runs.
EditDocument ==
    /\ pc = "done"
    /\ runs < MaxRuns
    /\ ~edited
    /\ \E d \in Edited(doc) : doc' = d
    /\ edited' = TRUE
    /\ UNCHANGED <<cacheFile, graph, accepted, clock, runs, runInfo, local, pc,
                   exc, outcome, graphiti, calls, saveReached, trace>>

\* An exception leaving the function without running finally.
RaiseNoFinally ==
    /\ pc' = "done"
    /\ exc' = TRUE
    /\ outcome' = "error"

\* An exception leaves the function: through finally (close) when the try
\* block has been entered, straight out otherwise.
Raise ==
    IF graphiti = "open"
    THEN /\ pc' = "finally"
         /\ exc' = TRUE
         /\ outcome' = outcome
    ELSE /\ pc' = "done"
         /\ exc' = TRUE
         /\ outcome' = "error"

\* if not neo4j_uri or not neo4j_user or not neo4j_password: raise ValueError
CheckConfig ==
    /\ pc = "config"
    /\ IF /\ Getenv(env.uri) # "empty"
          /\ Getenv(env.user) # "empty"
          /\ Getenv(env.password) # "empty"
       THEN /\ pc' = (IF mode = "incremental" THEN "parse" ELSE "connect")
            /\ UNCHANGED <<exc, outcome>>
       ELSE Raise
    /\ UNCHANGED <<persistent, counters, runInfo, local, graphiti, calls,
                   saveReached, trace>>

\* chunks = parse_text_file(file_path); in ingest.py the loop follows at once
ParseTextFile ==
    /\ pc = "parse"
    /\ chunks' = parse_text_file(doc)
    /\ IF mode = "full"
       THEN /\ pc' = "submit"
            /\ now' = clock
            /\ i' = 0
       ELSE /\ pc' = "load"
            /\ UNCHANGED <<now, i>>
    /\ ops' = Append(ops, "parse_text_file")
    /\ UNCHANGED <<persistent, counters, runInfo, cache, new_or_changed_chunks,
                   loadedKeys, exc, outcome, graphiti, calls, saveReached,
                   outstanding>>

\* open(file_path) raises: the document cannot be read
ParseTextFileError ==
    /\ pc = "parse"
    /\ Raise
    /\ ops' = Append(ops, "parse_text_file")
    /\ UNCHANGED <<persistent, counters, runInfo, local, graphiti, calls,
                   saveReached, outstanding>>

\* load_cache after which the document is read again.
LoadCacheReparse ==
    /\ pc = "load"
    /\ cache' = load_cache(cacheFile)
    /\ loadedKeys' = Keys(load_cache(cacheFile))
    /\ pc' = (IF ops = <<"parse_text_file">> THEN "parse" ELSE "diff")
    /\ ops' = Append(ops, "load_cache")
    /\ UNCHANGED <<persistent, counters, runInfo, chunks, new_or_changed_chunks,
                   i, now, exc, outcome, graphiti, calls, saveReached,
                   outstanding>>

\* cache = load_cache(cache_file)
LoadCache ==
    /\ pc = "load"
    /\ cache' = load_cache(cacheFile)
    /\ loadedKeys' = Keys(load_cache(cacheFile))
    /\ pc' = "diff"
    /\ ops' = Append(ops, "load_cache")
    /\ UNCHANGED <<persistent, counters, runInfo, chunks, new_or_changed_chunks,
                   i, now, exc, outcome, graphiti, calls, saveReached,
                   outstanding>>

\* The comparison loop writing each staged entry through to the file.
DiffWriteThrough ==
    /\ pc = "diff"
    /\ LET r == DiffLoop(chunks, 1, cache, <<>>, clock) IN
        /\ cache' = r.cache
        /\ new_or_changed_chunks' = r.new_or_changed_chunks
        /\ cacheFile' = (IF r.new_or_changed_chunks = <<>> THEN cacheFile
                         ELSE [state |-> "valid", entries |-> r.cache])
        /\ IF r.new_or_changed_chunks = <<>>
           THEN /\ pc' = "done"
                /\ outcome' = "ok"
           ELSE /\ pc' = "connect"
                /\ outcome' = outcome
    /\ UNCHANGED <<doc, graph, accepted, counters, runInfo, chunks, i, now,
                   loadedKeys, exc, graphiti, calls, saveReached, trace>>

\* The comparison loop without the early return.
DiffNoReturn ==
    /\ pc = "diff"
    /\ LET r == DiffLoop(chunks, 1, cache, <<>>, clock) IN
        /\ cache' = r.cache
        /\ new_or_changed_chunks' = r.new_or_changed_chunks
    /\ pc' = "connect"
    /\ UNCHANGED <<persistent, counters, runInfo, chunks, i, now, loadedKeys,
                   exc, outcome, graphiti, calls, saveReached, trace>>

\* the comparison loop, then the early return when nothing is new
Diff ==
    /\ pc = "diff"
    /\ LET r == DiffLoop(chunks, 1, cache, <<>>, clock) IN
        /\ cache' = r.cache
        /\ new_or_changed_chunks' = r.new_or_changed_chunks
        /\ IF r.new_or_changed_chunks = <<>>
           THEN /\ pc' = "done"
                /\ outcome' = "ok"
           ELSE /\ pc' = "connect"
                /\ outcome' = outcome
    /\ UNCHANGED <<persistent, counters, runInfo, chunks, i, now, loadedKeys,
                   exc, graphiti, calls, saveReached, trace>>

\* The client is constructed and the run goes on without the schema step.
ConnectNoSchema ==
    /\ pc = "connect"
    /\ graphiti' = "open"
    /\ pc' = (IF mode = "query" THEN "search"
              ELSE IF mode = "full" THEN "parse"
              ELSE "submit")
    /\ now' = (IF mode = "incremental" THEN clock ELSE now)
    /\ ops' = Append(ops, "Graphiti")
    /\ UNCHANGED <<persistent, counters, runInfo, chunks, cache,
                   new_or_changed_chunks, i, loadedKeys, exc, outcome, calls,
                   saveReached, outstanding>>

\* graphiti = Graphiti(neo4j_uri, neo4j_user, neo4j_password), then try:
Connect ==
    /\ pc = "connect"
    /\ graphiti' = "open"
    /\ pc' = (IF mode = "query" THEN "search"
              ELSE IF mode = "full" /\ clear_existing THEN "clear"
              ELSE "schema")
    /\ ops' = Append(ops, "Graphiti")
    /\ UNCHANGED <<persistent, counters, runInfo, local, exc, outcome, calls,
                   saveReached, outstanding>>

\* the constructor raises: there is no client to close
ConnectError ==
    /\ pc = "connect"
    /\ Raise
    /\ ops' = Append(ops, "Graphiti")
    /\ UNCHANGED <<persistent, counters, runInfo, local, graphiti, calls,
                   saveReached, outstanding>>

\* clear_data that returns before the graph is cleared.
ClearDataDeferred ==
    /\ pc = "clear"
    /\ pc' = "schema"
    /\ ops' = Append(ops, "clear_data")
    /\ UNCHANGED <<persistent, counters, runInfo, local, exc, outcome, graphiti,
                   calls, saveReached, outstanding>>

\* await clear_data(graphiti.driver)
ClearData ==
    /\ pc = "clear"
    /\ graph' = {}
    /\ pc' = "schema"
    /\ ops' = Append(ops, "clear_data")
    /\ UNCHANGED <<doc, cacheFile, accepted, counters, runInfo, local, exc,
                   outcome, graphiti, calls, saveReached, outstanding>>

\* await clear_data(graphiti.driver) raises
ClearDataError ==
    /\ pc = "clear"
    /\ Raise
    /\ ops' = Append(ops, "clear_data")
    /\ UNCHANGED <<persistent, counters, runInfo, local, graphiti, calls,
                   saveReached, outstanding>>

\* await graphiti.build_indices_and_constraints(); in reingest.py the loop
\* follows: now = datetime.now(timezone.utc)
BuildIndices ==
    /\ pc = "schema"
    /\ IF mode = "full"
       THEN /\ pc' = "parse"
            /\ UNCHANGED <<now, i>>
       ELSE /\ pc' = "submit"
            /\ now' = clock
            /\ i' = 0
    /\ ops' = Append(ops, "build_indices_and_constraints")
    /\ UNCHANGED <<persistent, counters, runInfo, chunks, cache,
                   new_or_changed_chunks, loadedKeys, exc, outcome, graphiti,
                   calls, saveReached, outstanding>>

\* await graphiti.build_indices_and_constraints() raises
BuildIndicesError ==
    /\ pc = "schema"
    /\ Raise
    /\ ops' = Append(ops, "build_indices_and_constraints")
    /\ UNCHANGED <<persistent, counters, runInfo, local, graphiti, calls,
                   saveReached, outstanding>>

Call(chunk, k, ok) ==
    [chunk_number |-> chunk.chunk_number, hash |-> chunk.hash,
     reference_time |-> ReferenceTime(now, k), ok |-> ok]

\* The loop starting every call without awaiting the one before.
AddEpisodeBeginUnawaited ==
    /\ pc = "submit"
    /\ i < Len(Pending)
    /\ outstanding' = outstanding \cup {i}
    /\ ops' = Append(ops, "add_episode")
    /\ calls' = Append(calls, Call(Pending[i + 1], i, TRUE))
    /\ i' = i + 1
    /\ UNCHANGED <<persistent, counters, runInfo, chunks, cache,
                   new_or_changed_chunks, now, loadedKeys, pc, exc, outcome,
                   graphiti, saveReached>>

\* for i, chunk in enumerate(...): await graphiti.add_episode(...) is entered;
\* the coroutine is suspended until the call returns or raises
AddEpisodeBegin ==
    /\ pc = "submit"
    /\ i < Len(Pending)
    /\ outstanding' = outstanding \cup {i}
    /\ ops' = Append(ops, "add_episode")
    /\ pc' = "await"
    /\ UNCHANGED <<persistent, counters, runInfo, local, exc, outcome, graphiti,
                   calls, saveReached>>

\* await graphiti.add_episode(...) returns: the engine holds the episode
AddEpisode ==
    /\ pc = "await"
    /\ LET chunk == Pending[i + 1] IN
        /\ graph' = graph \cup {[body |-> chunk.hash,
                                 reference_time |-> ReferenceTime(now, i)]}
        /\ accepted' = accepted \cup {chunk.hash}
        /\ calls' = Append(calls, Call(chunk, i, TRUE))
    /\ outstanding' = outstanding \ {i}
    /\ i' = i + 1
    /\ pc' = "submit"
    /\ UNCHANGED <<doc, cacheFile, counters, runInfo, chunks, cache,
                   new_or_changed_chunks, now, loadedKeys, exc, outcome,
                   graphiti, saveReached, ops>>

\* add_episode raises and the loop catches it and goes on.
AddEpisodeErrorSwallowed ==
    /\ pc = "await"
    /\ calls' = Append(calls, Call(Pending[i + 1], i, FALSE))
    /\ outstanding' = outstanding \ {i}
    /\ i' = i + 1
    /\ pc' = "submit"
    /\ UNCHANGED <<persistent, counters, runInfo, chunks, cache,
                   new_or_changed_chunks, now, loadedKeys, exc, outcome,
                   graphiti, saveReached, ops>>

\* await graphiti.add_episode(...) raises (an error of the engine, or the
\* task is cancelled while it waits): nothing catches it before finally
AddEpisodeError ==
    /\ pc = "await"
    /\ calls' = Append(calls, Call(Pending[i + 1], i, FALSE))
    /\ outstanding' = outstanding \ {i}
    /\ Raise
    /\ UNCHANGED <<persistent, counters, runInfo, local, graphiti, saveReached,
                   ops>>

\* The end of the full-mode loop, followed by a write of the cache file.
FinishIngestSaving ==
    /\ pc = "submit"
    /\ mode = "full"
    /\ i = Len(Pending)
    /\ cacheFile' = [state |-> "valid",
                     entries |-> DiffLoop(chunks, 1, <<>>, <<>>, clock).cache]
    /\ pc' = "finally"
    /\ UNCHANGED <<doc, graph, accepted, counters, runInfo, local, exc, outcome,
                   graphiti, calls, saveReached, trace>>

\* ingest.py: the loop is over, the try block ends
FinishIngest ==
    /\ pc = "submit"
    /\ mode = "full"
    /\ i = Len(Pending)
    /\ pc' = "finally"
    /\ UNCHANGED <<persistent, counters, runInfo, local, exc, outcome, graphiti,
                   calls, saveReached, trace>>

\* save_cache: open(cache_file, 'w') truncates the file
SaveOpen ==
    /\ pc = "submit"
    /\ mode = "incremental"
    /\ i = Len(Pending)
    /\ cacheFile' = [state |-> "partial", entries |-> <<>>]
    /\ saveReached' = TRUE
    /\ pc' = "dump"
    /\ ops' = Append(ops, "save_cache")
    /\ UNCHANGED <<doc, graph, accepted, counters, runInfo, local, exc, outcome,
                   graphiti, calls, outstanding>>

\* save_cache: open(cache_file, 'w') raises, the file is as it was
SaveOpenError ==
    /\ pc = "submit"
    /\ mode = "incremental"
    /\ i = Len(Pending)
    /\ saveReached' = TRUE
    /\ Raise
    /\ ops' = Append(ops, "save_cache")
    /\ UNCHANGED <<persistent, counters, runInfo, local, graphiti, calls,
                   outstanding>>

\* save_cache: json.dump(cache_data, f, indent=2) writes the whole dict
SaveDump ==
    /\ pc = "dump"
    /\ cacheFile' = [state |-> "valid", entries |-> cache]
    /\ pc' = "finally"
    /\ UNCHANGED <<doc, graph, accepted, counters, runInfo, local, exc, outcome,
                   graphiti, calls, saveReached, trace>>

\* save_cache: the write stops part-way (an error or an interrupt): the file
\* keeps what was written, which is no complete JSON document
SaveDumpError ==
    /\ pc = "dump"
    /\ \E n \in 0..Len(cache) :
          cacheFile' = [state |-> "partial", entries |-> SubSeq(cache, 1, n)]
    /\ Raise
    /\ UNCHANGED <<doc, graph, accepted, counters, runInfo, local, graphiti,
                   calls, saveReached, trace>>

\* finally that saves the cache before closing.
CloseSaving ==
    /\ pc = "finally"
    /\ graphiti' = "closed"
    /\ pc' = "done"
    /\ outcome' = (IF exc THEN "error" ELSE "ok")
    /\ cacheFile' = (IF mode = "incremental"
                     THEN [state |-> "valid", entries |-> cache]
                     ELSE cacheFile)
    /\ ops' = Append(ops, "close")
    /\ UNCHANGED <<doc, graph, accepted, counters, runInfo, local, exc, calls,
                   saveReached, outstanding>>

\* finally: await graphiti.close()
Close ==
    /\ pc = "finally"
    /\ graphiti' = "closed"
    /\ pc' = "done"
    /\ outcome' = (IF exc THEN "error" ELSE "ok")
    /\ ops' = Append(ops, "close")
    /\ UNCHANGED <<persistent, counters, runInfo, local, exc, calls,
                   saveReached, outstanding>>

\* The run is interrupted (KeyboardInterrupt, cancellation) between two steps
\* before save_cache.
Interrupt ==
    /\ pc \in {"parse", "load", "diff", "connect", "clear", "schema", "submit",
              "search", "node_search"}
    /\ Raise
    /\ UNCHANGED <<persistent, counters, runInfo, local, graphiti, calls,
                   saveReached, trace>>

Next ==
    \/ StartReingest
    \/ StartIngest
    \/ EditDocument
    \/ CheckConfig
    \/ ParseTextFile
    \/ ParseTextFileError
    \/ LoadCache
    \/ Diff
    \/ Connect
    \/ ConnectError
    \/ ClearData
    \/ ClearDataError
    \/ BuildIndices
    \/ BuildIndicesError
    \/ AddEpisodeBegin
    \/ AddEpisode
    \/ AddEpisodeError
    \/ FinishIngest
    \/ SaveOpen
    \/ SaveOpenError
    \/ SaveDump
    \/ SaveDumpError
    \/ Close
    \/ Interrupt

Spec == Init /\ [][Next]_vars

\* ------------------------------------------------ one run of any tool
\* query.py: results = await graphiti.search(query); the node search follows
\* when there are results
Search ==
    /\ pc = "search"
    /\ \E results \in BOOLEAN :
          pc' = (IF results THEN "node_search" ELSE "finally")
    /\ ops' = Append(ops, "search")
    /\ UNCHANGED <<persistent, counters, runInfo, local, exc, outcome, graphiti,
                   calls, saveReached, outstanding>>

\* await graphiti.search(...) raises
SearchError ==
    /\ pc = "search"
    /\ Raise
    /\ ops' = Append(ops, "search")
    /\ UNCHANGED <<persistent, counters, runInfo, local, graphiti, calls,
                   saveReached, outstanding>>

\* query.py: node_search_results = await graphiti._search(...)
NodeSearch ==
    /\ pc = "node_search"
    /\ pc' = "finally"
    /\ ops' = Append(ops, "_search")
    /\ UNCHANGED <<persistent, counters, runInfo, local, exc, outcome, graphiti,
                   calls, saveReached, outstanding>>

\* await graphiti._search(...) raises
NodeSearchError ==
    /\ pc = "node_search"
    /\ Raise
    /\ ops' = Append(ops, "_search")
    /\ UNCHANGED <<persistent, counters, runInfo, local, graphiti, calls,
                   saveReached, outstanding>>

\* The entries a run stages for the chunks of a document.
EntriesOf(d) == DiffLoop(parse_text_file(d), 1, <<>>, <<>>, 0).cache

\* The cache files a run can find: none, one that an earlier run saved
\* ("valid"), text that is no JSON document, as an unfinished write leaves it
\* ("partial"), one that cannot be read ("unreadable": open raises IOError)
\* and one whose bytes are no text in the encoding of the locale
\* ("undecodable").
CacheFiles ==
    {NoFile} \cup {[state |-> st, entries |-> EntriesOf(d)] :
                      st \in {"valid", "partial", "unreadable", "undecodable"},
                      d \in Docs}

\* load_cache: json.load(f) raises UnicodeDecodeError, which is neither of the
\* exceptions caught, where the encoding of the locale rejects the bytes of
\* the file (UTF-8 does); where it accepts every byte (Latin-1) the text is
\* no JSON and LoadCache applies.
LoadCacheError ==
    /\ pc = "load"
    /\ cacheFile.state = "undecodable"
    /\ Raise
    /\ ops' = Append(ops, "load_cache")
    /\ UNCHANGED <<persistent, counters, runInfo, local, graphiti, calls,
                   saveReached, outstanding>>

\* No run has started.
Fresh ==
    /\ graph = {}
    /\ clock = 0
    /\ runs = 0
    /\ edited = FALSE
    /\ mode = "none"
    /\ clear_existing = FALSE
    /\ env = [uri |-> "set", user |-> "set", password |-> "set"]
    /\ pc = "idle"
    /\ chunks = <<>>
    /\ cache = <<>>
    /\ new_or_changed_chunks = <<>>
    /\ i = 0
    /\ now = 0
    /\ exc = FALSE
    /\ outcome = "none"
    /\ graphiti = "none"
    /\ calls = <<>>
    /\ fileAtStart = NoFile
    /\ runDoc = <<>>
    /\ loadedKeys = {}
    /\ saveReached = FALSE
    /\ prev = NoRun
    /\ ops = <<>>
    /\ outstanding = {}

InitTools ==
    /\ doc \in Docs
    /\ cacheFile \in CacheFiles
    /\ accepted = Keys(cacheFile.entries)
    /\ Fresh

\* python reingest.py FILE, python ingest.py FILE [--clear], python query.py
RunReingest == \E e \in Environs : pc = "idle" /\ Begin("incremental", FALSE, e)

RunIngest ==
    \E ce \in BOOLEAN, e \in Environs : pc = "idle" /\ Begin("full", ce, e)

RunQuery == \E e \in Environs : pc = "idle" /\ Begin("query", FALSE, e)

NextTools ==
    \/ RunReingest
    \/ RunIngest
    \/ RunQuery
    \/ CheckConfig
    \/ ParseTextFile
    \/ ParseTextFileError
    \/ LoadCache
    \/ LoadCacheError
    \/ Diff
    \/ Connect
    \/ ConnectError
    \/ ClearData
    \/ ClearDataError
    \/ BuildIndices
    \/ BuildIndicesError
    \/ AddEpisodeBegin
    \/ AddEpisode
    \/ AddEpisodeError
    \/ FinishIngest
    \/ SaveOpen
    \/ SaveOpenError
    \/ SaveDump
    \/ SaveDumpError
    \/ Search
    \/ SearchError
    \/ NodeSearch
    \/ NodeSearchError
    \/ Close
    \/ Interrupt

SpecTools == InitTools /\ [][NextTools]_vars

\* ------------------------------ incremental runs between reorderings
InitReorder ==
    /\ doc \in ReorderDocs
    /\ cacheFile = NoFile
    /\ accepted = {}
    /\ Fresh

\* python reingest.py FILE with the three parameters set
Reingest ==
    Begin("incremental", FALSE, [uri |-> "set", user |-> "set", password |-> "set"])

\* The paragraphs of the document are put in another order between two runs.
ReorderDocument ==
    /\ pc = "done"
    /\ runs < MaxRuns
    /\ ~edited
    /\ \E d \in Reordered(doc) \ {doc} : doc' = d
    /\ edited' = TRUE
    /\ UNCHANGED <<cacheFile, graph, accepted, clock, runs, runInfo, local, pc,
                   exc, outcome, graphiti, calls, saveReached, trace>>

NextReorder ==
    \/ Reingest
    \/ ReorderDocument
    \/ CheckConfig
    \/ ParseTextFile
    \/ ParseTextFileError
    \/ LoadCache
    \/ Diff
    \/ Connect
    \/ ConnectError
    \/ BuildIndices
    \/ BuildIndicesError
    \/ AddEpisodeBegin
    \/ AddEpisode
    \/ AddEpisodeError
    \/ SaveOpen
    \/ SaveOpenError
    \/ SaveDump
    \/ SaveDumpError
    \/ Close
    \/ Interrupt

SpecReorder == InitReorder /\ [][NextReorder]_vars

\* ------------------------------------------- the chunker on its own
InitChunks ==
    /\ doc \in RichDocs
    /\ cacheFile = NoFile
    /\ accepted = {}
    /\ Fresh

\* parse_text_file(file_path) on a document
Chunk ==
    /\ pc = "idle"
    /\ chunks' = parse_text_file(doc)
    /\ ops' = Append(ops, "parse_text_file")
    /\ pc' = "done"
    /\ UNCHANGED <<persistent, counters, runInfo, cache, new_or_changed_chunks,
                   i, now, loadedKeys, exc, outcome, graphiti, calls,
                   saveReached, outstanding>>

NextChunks == Chunk

SpecChunks == InitChunks /\ [][NextChunks]_vars

\* ----------------------------------------------------------- properties
CallHashes == {calls[k].hash : k \in 1..Len(calls)}
OkHashes == {calls[k].hash : k \in {j \in 1..Len(calls) : calls[j].ok}}
DeltaHashes == {new_or_changed_chunks[k].hash : k \in 1..Len(new_or_changed_chunks)}

\* What a reader of the cache file gets: its keys.
PersistedKeys(file) == Keys(load_cache(file))

\* This run and the one before it are incremental runs on the same document.
SecondIncremental ==
    /\ mode = "incremental"
    /\ prev.mode = "incremental"
    /\ prev.doc = runDoc

\* C1. After an incremental run that completed without error, the next
\* incremental run on the unchanged document makes no add_episode call.
CacheIdempotence ==
    (SecondIncremental /\ prev.outcome = "ok") => calls = <<>>

\* The second run is over, and the first one had submitted chunks.
CacheIdempotenceWitness ==
    /\ SecondIncremental
    /\ prev.outcome = "ok"
    /\ prev.ncalls > 0
    /\ pc = "done"
    /\ outcome = "ok"
    /\ chunks # <<>>
    /\ calls = <<>>

\* C2. Every key of the cache file is the hash of a chunk for which an
\* add_episode call has returned.
CacheSoundness == Keys(cacheFile.entries) \subseteq accepted

\* A cache was saved by the run that followed a run with a failed submission.
CacheSoundnessWitness ==
    /\ pc = "done"
    /\ mode = "incremental"
    /\ prev.failed # {}
    /\ cacheFile.state = "valid"
    /\ cacheFile.entries # <<>>
    /\ cacheFile # fileAtStart

\* The add_episode calls of the run as chunks, and two readings of "the delta".
Ident(c) == [chunk_number |-> c.chunk_number, hash |-> c.hash]
Idents(cs) == [k \in 1..Len(cs) |-> Ident(cs[k])]
Uncached == SelectSeq(chunks, LAMBDA c : c.hash \notin loadedKeys)
FirstAt(k) == \A j \in 1..(k - 1) : chunks[j].hash # chunks[k].hash
RECURSIVE FirstUncachedFrom(_)
FirstUncachedFrom(k) ==
    IF k > Len(chunks) THEN <<>>
    ELSE IF chunks[k].hash \notin loadedKeys /\ FirstAt(k)
         THEN <<chunks[k]>> \o FirstUncachedFrom(k + 1)
         ELSE FirstUncachedFrom(k + 1)
FirstUncached == FirstUncachedFrom(1)
IsPrefix(a, b) == Len(a) <= Len(b) /\ a = SubSeq(b, 1, Len(a))

\* C3 as stated. An incremental run that ends without error has submitted
\* exactly the chunks whose hash is no key of the loaded cache, in order.
DiffSubmitsUncached ==
    (mode = "incremental" /\ pc = "done" /\ outcome = "ok")
        => Idents(calls) = Idents(Uncached)

\* C3, amended. The calls of an incremental run are, in order, the first
\* occurrence of each hash that is no key of the loaded cache: a prefix of
\* them while the run lasts or when it fails, all of them when it ends well.
DiffSubmitsFirstUncached ==
    mode = "incremental" =>
        /\ IsPrefix(Idents(calls), Idents(FirstUncached))
        /\ (pc = "done" /\ outcome = "ok") => Idents(calls) = Idents(FirstUncached)
        /\ \A k \in 1..Len(calls) : calls[k].hash \notin loadedKeys

\* A run ended well having submitted a chunk and skipped its duplicate.
DiffSubmitsFirstUncachedWitness ==
    /\ mode = "incremental"
    /\ pc = "done"
    /\ outcome = "ok"
    /\ calls # <<>>
    /\ \E k \in 1..Len(chunks) :
          /\ chunks[k].hash \notin loadedKeys
          /\ Ident(chunks[k]) \notin {Ident(calls[j]) : j \in 1..Len(calls)}

\* C4. A run in which an add_episode call failed has still attempted every
\* chunk of its delta.
BestEffortBatch ==
    (mode = "incremental" /\ pc = "done" /\ FailedHashes # {})
        => Len(calls) = Len(new_or_changed_chunks)

\* What the code does where C4 expects the loop to go on: a failed
\* add_episode call is the last call of its run; the exception goes through
\* finally (close) and out, and save_cache is not reached.
AbortAtFirstFailure ==
    \A k \in 1..Len(calls) :
        ~calls[k].ok =>
            /\ k = Len(calls)
            /\ pc \in {"finally", "done"}
            /\ exc
            /\ ~saveReached
            /\ pc = "done" => (outcome = "error" /\ graphiti = "closed")

\* A run ended on a failed call with chunks of its delta never attempted.
AbortAtFirstFailureWitness ==
    /\ mode = "incremental"
    /\ pc = "done"
    /\ FailedHashes # {}
    /\ Len(calls) < Len(new_or_changed_chunks)

\* C5. After a run with calls that succeeded and a call that failed, the
\* cache holds the hashes of the former and none of the latter.
PartialFailureCommit ==
    (mode = "incremental" /\ pc = "done" /\ OkHashes # {} /\ FailedHashes # {})
        => /\ OkHashes \subseteq PersistedKeys(cacheFile)
           /\ FailedHashes \cap PersistedKeys(cacheFile) = {}

\* What the code does where C5 expects a partial commit: a run with a failed
\* call leaves the cache file as it found it; no hash submitted in the run,
\* accepted or not, becomes a key.
FailureCommitsNothing ==
    (mode = "incremental" /\ FailedHashes # {})
        => /\ cacheFile = fileAtStart
           /\ CallHashes \cap PersistedKeys(cacheFile) = {}

\* A run ended with an accepted chunk and a failed one.
FailureCommitsNothingWitness ==
    /\ mode = "incremental"
    /\ pc = "done"
    /\ OkHashes # {}
    /\ FailedHashes # {}

Episode(call) == [body |-> call.hash, reference_time |-> call.reference_time]

\* C7. While an incremental run has not reached save_cache, and when it ends
\* without reaching it, the cache file is the one the run started with, and
\* the episodes the engine accepted in the run are in the graph.
InterruptBeforeCommit ==
    (mode = "incremental" /\ ~saveReached)
        => /\ cacheFile = fileAtStart
           /\ \A k \in 1..Len(calls) : calls[k].ok => Episode(calls[k]) \in graph

\* A run over a saved cache ended in an error after an accepted episode.
InterruptBeforeCommitWitness ==
    /\ mode = "incremental"
    /\ pc = "done"
    /\ outcome = "error"
    /\ ~saveReached
    /\ OkHashes # {}
    /\ fileAtStart.state = "valid"
    /\ DeltaHashes \cap PersistedKeys(cacheFile) = {}

\* C8. Once save_cache has been entered over a saved cache, the file holds
\* what it held before or the whole new mapping.
AtomicCommit ==
    (mode = "incremental" /\ saveReached /\ pc \in {"finally", "done"}
        /\ fileAtStart.state = "valid")
        => \/ cacheFile = fileAtStart
           \/ cacheFile = [state |-> "valid", entries |-> cache]

\* C9. A run ends with every key in the cache that the cache had when the
\* run started.
CacheOnlyGrows ==
    pc = "done" => PersistedKeys(fileAtStart) \subseteq PersistedKeys(cacheFile)

\* C10. The k-th call of a run, counted from 0, carries now + 10 k seconds,
\* so the reference times of the calls of a run increase strictly.
ReferenceTimeAssignment ==
    /\ \A k \in 1..Len(calls) :
          calls[k].reference_time = now + (k - 1) * FixedOffset
    /\ \A j, k \in 1..Len(calls) :
          j < k => calls[j].reference_time < calls[k].reference_time

\* An incremental run has made two calls.
ReferenceTimeAssignmentWitness ==
    /\ mode = "incremental"
    /\ pc = "done"
    /\ outcome = "ok"
    /\ Len(calls) >= 2

\* ------------------------------- order of calls, chunker, cache files
OpCount(name) == Cardinality({k \in 1..Len(ops) : ops[k] = name})

\* C11. At most one add_episode call of a run is in flight; while the call
\* of index k is in flight every call of a lower index has returned, none
\* has failed, and each carries an earlier reference time than the call in
\* flight: the engine gets the episodes in increasing reference_time order.
SequentialSubmission ==
    /\ Cardinality(outstanding) <= 1
    /\ OpCount("add_episode") = Len(calls) + Cardinality(outstanding)
    /\ outstanding # {} =>
          /\ outstanding = {i}
          /\ Len(calls) = i
          /\ \A k \in 1..Len(calls) :
                /\ calls[k].ok
                /\ calls[k].reference_time < ReferenceTime(now, i)
    /\ \A j, k \in 1..Len(calls) :
          j < k => calls[j].reference_time < calls[k].reference_time

\* The second call of a run is in flight, the first has returned.
SequentialSubmissionWitness ==
    /\ outstanding = {1}
    /\ Len(calls) = 1
    /\ pc = "await"

\* The three connection parameters as the configuration test sees them.
ConfigOk ==
    /\ Getenv(env.uri) # "empty"
    /\ Getenv(env.user) # "empty"
    /\ Getenv(env.password) # "empty"

\* C12 as stated. A run that got past the configuration test and did
\* anything at all has ended with a call of close().
CloseOnEveryPath ==
    (pc = "done" /\ ops # <<>>) => ops[Len(ops)] = "close"

\* C12, amended. No run ends with an open client: a run that constructed the
\* client has called close() once, as its last operation, whether it ends
\* well or not; a run that ends without having constructed one (nothing to
\* submit, the document unreadable in reingest.py, a configuration error, a
\* failing constructor) has called neither close() nor anything of the client.
ClosesOpenedClient ==
    /\ OpCount("close") <= 1
    /\ (graphiti = "closed") <=> (OpCount("close") = 1)
    /\ graphiti # "none" => OpCount("Graphiti") = 1
    /\ pc = "done" =>
          /\ graphiti # "open"
          /\ graphiti = "closed" => ops[Len(ops)] = "close"
          /\ graphiti = "none" =>
                /\ calls = <<>>
                /\ \A k \in 1..Len(ops) :
                      ops[k] \in {"parse_text_file", "load_cache", "Graphiti"}
    /\ (pc = "done" /\ mode \in {"full", "query"} /\ OpCount("Graphiti") = 1
          /\ ops[Len(ops)] # "Graphiti") => graphiti = "closed"

\* A query run whose search failed has ended with the client closed.
ClosesOpenedClientWitness ==
    /\ mode = "query"
    /\ pc = "done"
    /\ outcome = "error"
    /\ ops = <<"Graphiti", "search", "close">>
    /\ graphiti = "closed"

\* C13 as stated. A run started with one of the three connection parameters
\* absent from the environment ends in a configuration error, having read no
\* document, loaded no cache and constructed no client.
ConfigFailFast ==
    (mode # "none" /\ pc # "config"
        /\ "unset" \in {env.uri, env.user, env.password})
        => /\ pc = "done"
           /\ outcome = "error"
           /\ ops = <<>>
           /\ graphiti = "none"

\* What the code does where C13 expects the error: the test is on the values
\* after the defaults, so it stops the run, before anything else is done,
\* only when a parameter is the empty string.
EmptyParameterFailsFast ==
    (mode # "none" /\ pc # "config" /\ ~ConfigOk)
        => /\ pc = "done"
           /\ outcome = "error"
           /\ ops = <<>>
           /\ graphiti = "none"
           /\ chunks = <<>>
           /\ cache = <<>>
           /\ calls = <<>>
           /\ cacheFile = fileAtStart

\* A run without NEO4J_PASSWORD in the environment has submitted a chunk.
EmptyParameterFailsFastWitness ==
    /\ env.password = "unset"
    /\ pc = "done"
    /\ outcome = "ok"
    /\ calls # <<>>

\* The characters of a chunk's content.
ContentLen(chunk) == StrLen(chunk.content)

\* C14. Every chunk is at most Threshold characters long, unless it is one
\* paragraph that is longer than that on its own.
ChunkSizeBound ==
    \A k \in 1..Len(chunks) :
        \/ ContentLen(chunks[k]) <= Threshold
        \/ /\ Len(chunks[k].content) = 1
           /\ ContentLen(chunks[k]) > Threshold

\* What the code does where C14 expects the bound: the test of the loop
\* leaves out the two characters of the separator it then inserts, so a
\* chunk of several paragraphs is at most Threshold + 2 characters long.
ChunkSizeBoundPlusSeparator ==
    \A k \in 1..Len(chunks) :
        \/ ContentLen(chunks[k]) <= Threshold + 2
        \/ Len(chunks[k].content) = 1

\* A chunk of two paragraphs is longer than Threshold.
ChunkSizeBoundPlusSeparatorWitness ==
    /\ pc = "done"
    /\ \E k \in 1..Len(chunks) :
          /\ Len(chunks[k].content) = 2
          /\ ContentLen(chunks[k]) > Threshold

\* The paragraphs of the chunks, in chunk order: each content split at the
\* separator.
RECURSIVE ParagraphsOf(_)
ParagraphsOf(cs) ==
    IF cs = <<>> THEN <<>>
    ELSE ParagraphsOf(SubSeq(cs, 1, Len(cs) - 1)) \o cs[Len(cs)].content

Texts(ps) == [k \in 1..Len(ps) |-> ps[k].text]

NumberedFromOne == \A k \in 1..Len(chunks) : chunks[k].chunk_number = k

\* C15 as stated. The paragraphs of the chunks are the paragraphs of the
\* document, and the chunks are numbered 1..n.
Reconstruction ==
    pc = "done" => (ParagraphsOf(chunks) = doc /\ NumberedFromOne)

\* C15, amended. The paragraphs of the chunks are those of the document, in
\* order, none dropped, doubled or split, each with its text and its
\* whitespace, except that the whitespace before the first paragraph and
\* after the last paragraph of a chunk is gone; no chunk is empty and the
\* chunks are numbered 1..n.
ReconstructionTrimmed ==
    pc = "done" =>
        /\ Texts(ParagraphsOf(chunks)) = Texts(doc)
        /\ \A k \in 1..Len(doc) :
              /\ ParagraphsOf(chunks)[k].lead \in {0, doc[k].lead}
              /\ ParagraphsOf(chunks)[k].trail \in {0, doc[k].trail}
        /\ \A k \in 1..Len(chunks) :
              /\ chunks[k].content # <<>>
              /\ chunks[k].content[1].lead = 0
              /\ chunks[k].content[Len(chunks[k].content)].trail = 0
              /\ \A j \in 2..Len(chunks[k].content) :
                    chunks[k].content[j].lead
                        = doc[Len(ParagraphsOf(SubSeq(chunks, 1, k - 1))) + j].lead
              /\ \A j \in 1..(Len(chunks[k].content) - 1) :
                    chunks[k].content[j].trail
                        = doc[Len(ParagraphsOf(SubSeq(chunks, 1, k - 1))) + j].trail
        /\ NumberedFromOne

\* Two chunks, the second from a paragraph that starts with whitespace.
ReconstructionTrimmedWitness ==
    /\ pc = "done"
    /\ Len(chunks) = 2
    /\ Len(doc) = 2
    /\ doc[2].lead = 1
    /\ chunks[2].content[1].lead = 0

ChunkHashes == {chunks[k].hash : k \in 1..Len(chunks)}

\* load_cache is called and returns the empty cache, and the run goes on.
LoadsEmpty ==
    /\ pc' = "diff"
    /\ cache' = <<>>
    /\ loadedKeys' = {}

\* C16 as stated. In an incremental run over a cache file that is missing,
\* unreadable or no valid JSON, load_cache returns the empty cache and the run
\* goes on as a first run does; when it ends well it has submitted every
\* distinct chunk of the document.
GracefulCacheCorruption ==
    /\ [][(mode = "incremental" /\ pc = "load" /\ cacheFile.state # "valid"
             /\ ops' = Append(ops, "load_cache")) => LoadsEmpty]_vars
    /\ []((mode = "incremental" /\ fileAtStart.state # "valid"
             /\ pc = "done" /\ outcome = "ok") => OkHashes = ChunkHashes)

\* What the code does where C16 expects the empty cache for every such file:
\* it is what load_cache returns when the file is missing, cannot be opened
\* or read (IOError) or holds text that is no JSON (JSONDecodeError); the run
\* then stages and submits what a first run does.
GracefulForCaughtErrors ==
    /\ [][(mode = "incremental" /\ pc = "load"
             /\ cacheFile.state \in {"missing", "partial", "unreadable"}
             /\ ops' = Append(ops, "load_cache")) => LoadsEmpty]_vars
    /\ []((mode = "incremental" /\ OpCount("load_cache") = 1
             /\ fileAtStart.state # "valid"
             /\ ~(pc = "done" /\ outcome = "error"))
            => /\ loadedKeys = {}
               /\ pc # "diff" =>
                     /\ cache = DiffLoop(chunks, 1, <<>>, <<>>, clock).cache
                     /\ Keys(cache) = ChunkHashes
                     /\ new_or_changed_chunks = FirstUncached
                     /\ IsPrefix(Idents(calls), Idents(new_or_changed_chunks))
               /\ pc = "done" => OkHashes = ChunkHashes)

\* A run over a truncated cache file that names the chunks of the document
\* has submitted them again and ended well.
GracefulForCaughtErrorsWitness ==
    /\ mode = "incremental"
    /\ fileAtStart.state = "partial"
    /\ ChunkHashes \subseteq Keys(fileAtStart.entries)
    /\ pc = "done"
    /\ outcome = "ok"
    /\ Len(calls) = 2

\* This run is an incremental run on a reordering of the document of the run
\* before it, an incremental run that ended well.
AfterReordering ==
    /\ mode = "incremental"
    /\ prev.mode = "incremental"
    /\ prev.outcome = "ok"
    /\ runDoc \in Reordered(prev.doc)

Contents(cs) == {cs[k].content : k \in 1..Len(cs)}

\* C17 as stated. The run after a reordering of the paragraphs finds every
\* chunk hash among the keys of the cache and submits nothing.
ReorderingSkips ==
    AfterReordering =>
        /\ calls = <<>>
        /\ new_or_changed_chunks = <<>>
        /\ OpCount("load_cache") = 1 => ChunkHashes \subseteq loadedKeys

\* C17, amended. The run after a reordering that leaves every chunk with a
\* content some chunk had before (whole chunks moved, their numbers changed)
\* finds every chunk hash among the keys of the cache and submits nothing.
ReorderedChunksSkip ==
    (AfterReordering
        /\ Contents(parse_text_file(runDoc)) \subseteq Contents(parse_text_file(prev.doc)))
        => /\ calls = <<>>
           /\ new_or_changed_chunks = <<>>
           /\ OpCount("load_cache") = 1 => ChunkHashes \subseteq loadedKeys

\* The run after two chunks changed places has ended well without a call.
ReorderedChunksSkipWitness ==
    /\ AfterReordering
    /\ runDoc # prev.doc
    /\ prev.ncalls = 2
    /\ Len(chunks) = 2
    /\ chunks[1].hash # chunks[2].hash
    /\ pc = "done"
    /\ outcome = "ok"
    /\ calls = <<>>

\* The comparison loop of this incremental run is over.
DiffDone ==
    /\ mode = "incremental"
    /\ \/ pc \in {"connect", "schema", "submit", "await", "dump", "finally"}
       \/ pc = "done" /\ (outcome = "ok" \/ OpCount("Graphiti") = 1)

\* The number of the first chunk of the document with hash h.
FirstNumber(h) ==
    chunks[CHOOSE k \in 1..Len(chunks) :
              /\ chunks[k].hash = h
              /\ \A j \in 1..(k - 1) : chunks[j].hash # h].chunk_number

HashCount(s, h) == Cardinality({k \in 1..Len(s) : s[k].hash = h})

\* C18. For every hash of the document that is no key of the loaded cache,
\* however many chunks carry it: one chunk is in the delta and one entry is
\* staged, both with the chunk_number of the first occurrence, and the run
\* calls add_episode for it at most once, once when it ends well.
InDocumentDedup ==
    DiffDone =>
        \A h \in ChunkHashes \ loadedKeys :
            /\ HashCount(new_or_changed_chunks, h) = 1
            /\ HashCount(cache, h) = 1
            /\ \A k \in 1..Len(new_or_changed_chunks) :
                  new_or_changed_chunks[k].hash = h
                      => new_or_changed_chunks[k].chunk_number = FirstNumber(h)
            /\ \A k \in 1..Len(cache) :
                  cache[k].hash = h => cache[k].chunk_number = FirstNumber(h)
            /\ HashCount(calls, h) <= 1
            /\ \A k \in 1..Len(calls) :
                  calls[k].hash = h => calls[k].chunk_number = FirstNumber(h)
            /\ (pc = "done" /\ outcome = "ok") => HashCount(calls, h) = 1

\* A run over two chunks of the same content, new to the cache, has ended
\* well with one call, for chunk 1, and saved one entry.
InDocumentDedupWitness ==
    /\ mode = "incremental"
    /\ pc = "done"
    /\ outcome = "ok"
    /\ Len(chunks) = 2
    /\ chunks[1].hash = chunks[2].hash
    /\ chunks[1].hash \notin loadedKeys
    /\ Len(calls) = 1
    /\ calls[1].chunk_number = 1
    /\ HashCount(cacheFile.entries, chunks[1].hash) = 1

\* The phase an incremental run is in.
Phase ==
    IF pc = "done" THEN (IF outcome = "ok" THEN "Done" ELSE "Failed")
    ELSE IF exc THEN "Failed"
    ELSE CASE pc \in {"idle", "config", "parse"} -> "Idle"
           [] pc = "load" -> "Chunked"
           [] pc = "diff" -> "Loaded"
           [] pc \in {"connect", "schema"} -> "Diffed"
           [] pc \in {"submit", "await", "dump"} -> "Submitting"
           [] pc = "finally" -> "Committed"
           [] OTHER -> "Other"

\* A step of an incremental run that changes its phase.
PhaseStep == mode = "incremental" /\ runs' = runs /\ Phase' # Phase

\* The order of C19, and the order of the code.
ClaimedNext(ph) ==
    CASE ph = "Idle" -> {"Loaded", "Failed"}
      [] ph = "Loaded" -> {"Chunked", "Failed"}
      [] ph = "Chunked" -> {"Diffed", "Failed"}
      [] ph = "Diffed" -> {"Submitting", "Failed"}
      [] ph = "Submitting" -> {"Committed", "Failed"}
      [] ph = "Committed" -> {"Done", "Failed"}
      [] OTHER -> {}

CodeNext(ph) ==
    CASE ph = "Idle" -> {"Chunked", "Failed"}
      [] ph = "Chunked" -> {"Loaded", "Failed"}
      [] ph = "Loaded" -> {"Diffed", "Done", "Failed"}
      [] ph = "Diffed" -> {"Submitting", "Failed"}
      [] ph = "Submitting" -> {"Committed", "Failed"}
      [] ph = "Committed" -> {"Done"}
      [] OTHER -> {}

\* Some step takes the run to Failed.
Fails == NextTools /\ Phase' = "Failed"

Places(name) == {k \in 1..Len(ops) : ops[k] = name}

\* C20. A run calls build_indices_and_constraints at most once; a run that
\* calls add_episode has called it once, and it has returned, before the
\* first add_episode call; in full mode with clear_existing, and only then,
\* clear_data is called, once and before it.
SchemaBeforeSubmission ==
    /\ OpCount("build_indices_and_constraints") <= 1
    /\ OpCount("add_episode") >= 1 =>
          /\ OpCount("build_indices_and_constraints") = 1
          /\ \A b \in Places("build_indices_and_constraints") :
                \A a \in Places("add_episode") : b < a
    /\ OpCount("clear_data") <= 1
    /\ OpCount("clear_data") = 1 => (mode = "full" /\ clear_existing)
    /\ (mode = "full" /\ clear_existing) =>
          \A b \in Places("build_indices_and_constraints") :
              /\ OpCount("clear_data") = 1
              /\ \A c \in Places("clear_data") : c < b

\* A full run with clear_existing has submitted two chunks and ended well.
SchemaBeforeSubmissionWitness ==
    /\ mode = "full"
    /\ clear_existing
    /\ pc = "done"
    /\ outcome = "ok"
    /\ ops = <<"Graphiti", "clear_data", "build_indices_and_constraints",
               "parse_text_file", "add_episode", "add_episode", "close">>

\* ------------------------------------------------------- frame effects
\* C21. An incremental run that has loaded a cache holding every chunk hash
\* of the document ends after the comparison: the cache file is the one it
\* found, no client is constructed and nothing of the client is called.
NoChangeNoOp ==
    (mode = "incremental" /\ OpCount("load_cache") = 1
        /\ ChunkHashes \subseteq loadedKeys)
        => /\ pc \in {"diff", "done"}
           /\ ops = <<"parse_text_file", "load_cache">>
           /\ cacheFile = fileAtStart
           /\ graphiti = "none"
           /\ calls = <<>>
           /\ outstanding = {}
           /\ new_or_changed_chunks = <<>>
           /\ ~saveReached

\* A run over a document whose chunks are all keys of the saved cache has
\* ended well.
NoChangeNoOpWitness ==
    /\ mode = "incremental"
    /\ pc = "done"
    /\ outcome = "ok"
    /\ chunks # <<>>
    /\ ChunkHashes \subseteq loadedKeys
    /\ fileAtStart.state = "valid"
    /\ cacheFile = fileAtStart
    /\ ops = <<"parse_text_file", "load_cache">>

\* C22. A full-mode run, with or without clear_existing, calls neither
\* load_cache nor save_cache and leaves the cache file as it found it at
\* every step and whatever its outcome; it submits the chunks of the
\* document in order, cached or not, and all of them when it ends well.
FullModeLeavesCache ==
    mode = "full"
        => /\ cacheFile = fileAtStart
           /\ OpCount("load_cache") = 0
           /\ OpCount("save_cache") = 0
           /\ cache = <<>>
           /\ loadedKeys = {}
           /\ ~saveReached
           /\ IsPrefix(Idents(calls), Idents(chunks))
           /\ (pc = "done" /\ outcome = "ok") => Idents(calls) = Idents(chunks)

\* A full-mode run over a document whose chunks are all keys of the cache
\* file has submitted every chunk and ended well.
FullModeLeavesCacheWitness ==
    /\ mode = "full"
    /\ pc = "done"
    /\ outcome = "ok"
    /\ chunks # <<>>
    /\ fileAtStart.state = "valid"
    /\ ChunkHashes \subseteq PersistedKeys(fileAtStart)
    /\ Idents(calls) = Idents(chunks)
    /\ cacheFile = fileAtStart

\* C23. A full-mode run with clear_existing that reaches the read of the
\* document has constructed the client, cleared the graph and built the
\* indices, in this order, before it; until the first add_episode call the
\* graph is empty; and when the run fails with no add_episode call made,
\* as it does when the document cannot be read, the client has been closed
\* right after the read.
ClearBeforeRead ==
    (mode = "full" /\ clear_existing /\ OpCount("parse_text_file") > 0)
        => /\ SubSeq(ops, 1, 4) = <<"Graphiti", "clear_data",
                                    "build_indices_and_constraints",
                                    "parse_text_file">>
           /\ OpCount("add_episode") = 0 => (graph = {} /\ calls = <<>>)
           /\ (pc = "done" /\ outcome = "error" /\ OpCount("add_episode") = 0)
                 => /\ graphiti = "closed"
                    /\ ops = <<"Graphiti", "clear_data",
                               "build_indices_and_constraints",
                               "parse_text_file", "close">>

\* The document could not be read in a full-mode run with clear_existing
\* that followed a run which had put episodes in the graph.
ClearBeforeReadWitness ==
    /\ mode = "full"
    /\ clear_existing
    /\ pc = "done"
    /\ outcome = "error"
    /\ runDoc # <<>>
    /\ chunks = <<>>
    /\ accepted # {}
    /\ graph = {}
    /\ calls = <<>>
    /\ graphiti = "closed"
    /\ ops = <<"Graphiti", "clear_data", "build_indices_and_constraints",
               "parse_text_file", "close">>

====
